---- MODULE Spec2Model ----
(***************************************************************************)
(* Model of ExcelBuilder (src/excel_builder.py, the class defined at       *)
(* lines 198-790, which is the definition in force after the module is     *)
(* loaded): the record sets self.data, the name resolver _get_names, the  *)
(* assembly pass add_data over a JSON document and the row pass of         *)
(* build_final that hands the record sets to the worksheets.               *)
(*                                                                         *)
(* JSON values are tagged records [t |-> tag, v |-> payload]:              *)
(*   none | bool | int | float | str | list | dict                         *)
(* A str payload is a sequence of one-character strings, a list payload a  *)
(* sequence of values, a dict payload a function from keys to values (a    *)
(* key that is absent is not in its DOMAIN).  A float payload is the       *)
(* value in hundredths (9.5 is VFloat(950)).                                *)
(***************************************************************************)
EXTENDS Integers, Sequences, FiniteSets, TLC

VARIABLES data, json_data, exc, calls, wb, wb_exc, builds, gn_mg, gn_idx, gn_num,
          retry

\* data, json_data, exc, calls: the builder's record sets, the document object
\*   the caller holds, the exception that escaped the last add_data, the
\*   number of add_data calls made
\* wb, wb_exc, builds: the rows the last build_final handed to each worksheet,
\*   the exception that escaped it, the number of build_final calls made
\* gn_mg, gn_idx, gn_num: a modifier group mapping, its position in the list
\*   and the number add_data gives it (the group-number rule taken alone)
vars ==
  <<data, json_data, exc, calls, wb, wb_exc, builds, gn_mg, gn_idx, gn_num,
    retry>>

-----------------------------------------------------------------------------
(* Bounds of the model *)

\* add_data calls made on one builder
MaxCalls == 2
\* length of the longest raw name fed to _get_names
MaxNameLen == 25
\* declared items of the largest modifier group
MaxMembers == 7
\* declared modifiers of the item with the longest modifiers list
MaxMods == 11
\* declared item names of the largest submenu
MaxSubItems == 4
\* build_final calls made on one builder
MaxBuilds == 1
\* largest position of a modifier group in the list (group-number rule)
MaxGroupIndex == 1000
\* largest max_retries handed to _generate_with_retry
MaxRetries == 4

(* Program constants *)

ShortMax == 15
LongMax == 23
MinRows == 6
GridCols == 3
ModSlots == 10
mod_item_number_start == 20000
GroupNumMin == 10000
GroupNumMax == 19999
GroupNumStep == 10

-----------------------------------------------------------------------------
(* Python values *)

None == [t |-> "none"]
VBool(b) == [t |-> "bool", v |-> b]
VInt(n) == [t |-> "int", v |-> n]
VFloat(c) == [t |-> "float", v |-> c]
VStr(s) == [t |-> "str", v |-> s]
VList(l) == [t |-> "list", v |-> l]
VDict(f) == [t |-> "dict", v |-> f]

EmptyDict == VDict(<<>>)

\* bool(x): Python truthiness
Truthy(x) ==
  CASE x.t = "none" -> FALSE
    [] x.t = "bool" -> x.v
    [] x.t = "int" -> x.v # 0
    [] x.t = "float" -> x.v # 0
    [] x.t = "str" -> Len(x.v) > 0
    [] x.t = "list" -> Len(x.v) > 0
    [] x.t = "dict" -> DOMAIN x.v # {}

\* `a or b`
Or(a, b) == IF Truthy(a) THEN a ELSE b

\* d.get(k, default) on a dict d
GetDefault(d, k, default) == IF k \in DOMAIN d.v THEN d.v[k] ELSE default

\* d.get(k) on a dict d
Get(d, k) == GetDefault(d, k, None)

\* n copies of the character c
Rep(c, n) == [i \in 1..n |-> c]

-----------------------------------------------------------------------------
(* Python strings, as sequences of characters *)

Digits == <<"0", "1", "2", "3", "4", "5", "6", "7", "8", "9">>

IsDigit(c) == \E i \in 1..10 : Digits[i] = c

DigitVal(c) == (CHOOSE i \in 1..10 : Digits[i] = c) - 1

\* characters str.strip() removes (the whitespace of the modelled alphabet)
IsSpace(c) == c \in {" ", "\t", "\n"}

RECURSIVE LStrip(_)
LStrip(s) == IF s # <<>> /\ IsSpace(Head(s)) THEN LStrip(Tail(s)) ELSE s

RECURSIVE RStrip(_)
RStrip(s) ==
  IF s # <<>> /\ IsSpace(s[Len(s)]) THEN RStrip(SubSeq(s, 1, Len(s) - 1)) ELSE s

\* s.strip()
Strip(s) == RStrip(LStrip(s))

\* s[:n]
Take(s, n) == SubSeq(s, 1, IF Len(s) < n THEN Len(s) ELSE n)

\* s.replace(c, '') for every c of cs
Remove(s, cs) == SelectSeq(s, LAMBDA c : c \notin cs)

\* decimal digits of n >= 0
RECURSIVE NatStr(_)
NatStr(n) ==
  IF n < 10 THEN <<Digits[n + 1]>> ELSE NatStr(n \div 10) \o <<Digits[(n % 10) + 1]>>

\* value of a non-empty sequence of digits
RECURSIVE NatOf(_)
NatOf(s) ==
  IF s = <<>> THEN 0 ELSE 10 * NatOf(SubSeq(s, 1, Len(s) - 1)) + DigitVal(s[Len(s)])

AllDigits(s) == \A i \in 1..Len(s) : IsDigit(s[i])

\* str(x) for the value kinds the model feeds to it (str, int, bool)
PyStr(x) ==
  CASE x.t = "str" -> x.v
    [] x.t = "int" -> IF x.v < 0 THEN <<"-">> \o NatStr(-x.v) ELSE NatStr(x.v)
    [] x.t = "bool" -> IF x.v THEN <<"T", "r", "u", "e">> ELSE <<"F", "a", "l", "s", "e">>

\* sign and unsigned body of a stripped numeric literal
SignOf(s) == IF s # <<>> /\ Head(s) = "-" THEN -1 ELSE 1

Unsigned(s) == IF s # <<>> /\ Head(s) \in {"-", "+"} THEN Tail(s) ELSE s

\* position of the first "." of s, or Len(s) + 1
DotPos(s) ==
  IF \E i \in 1..Len(s) : s[i] = "."
  THEN CHOOSE i \in 1..Len(s) : s[i] = "." /\ \A j \in 1..(i - 1) : s[j] # "."
  ELSE Len(s) + 1

\* float(s) for a str s over digits, sign, "." and other characters: the
\* literal is [ws] [sign] digits [. digits] [ws] with at least one digit;
\* anything else raises ValueError (ok = FALSE).  The value is kept in
\* hundredths, so the inputs of the model carry at most two decimals.  The
\* other literals float() takes (exponents, "_" between digits, the spellings
\* of infinity and NaN) are outside the alphabet of the model's inputs.
float_of_str(s) ==
  LET u == Unsigned(Strip(s))
      d == DotPos(u)
      ip == SubSeq(u, 1, d - 1)
      fp == SubSeq(u, d + 1, Len(u))
      f2 == Take(fp \o <<"0", "0">>, 2)
      good == AllDigits(ip) /\ AllDigits(fp) /\ Len(ip) + Len(fp) >= 1
  IN  [ok |-> good,
       v |-> IF good THEN SignOf(Strip(s)) * (100 * NatOf(ip) + NatOf(f2)) ELSE 0]

\* float(x): ok = FALSE stands for TypeError / ValueError
py_float(x) ==
  CASE x.t = "float" -> [ok |-> TRUE, v |-> x.v]
    [] x.t = "int" -> [ok |-> TRUE, v |-> 100 * x.v]
    [] x.t = "bool" -> [ok |-> TRUE, v |-> IF x.v THEN 100 ELSE 0]
    [] x.t = "str" -> float_of_str(x.v)
    [] OTHER -> [ok |-> FALSE, v |-> 0]

\* int(s) for a str s: [ws] [sign] digits [ws]
int_of_str(s) ==
  LET u == Unsigned(Strip(s))
      good == u # <<>> /\ AllDigits(u)
  IN  [ok |-> good, v |-> IF good THEN SignOf(Strip(s)) * NatOf(u) ELSE 0]

\* int(x): truncation toward zero for a float; ok = FALSE stands for
\* TypeError / ValueError
py_int(x) ==
  CASE x.t = "int" -> [ok |-> TRUE, v |-> x.v]
    [] x.t = "bool" -> [ok |-> TRUE, v |-> IF x.v THEN 1 ELSE 0]
    [] x.t = "float" ->
         [ok |-> TRUE, v |-> IF x.v < 0 THEN -((-x.v) \div 100) ELSE x.v \div 100]
    [] x.t = "str" -> int_of_str(x.v)
    [] OTHER -> [ok |-> FALSE, v |-> 0]

\* isinstance(x, int): bool is a subclass of int
IsInstanceInt(x) == x.t \in {"int", "bool"}

\* the integer a bool or int compares as
IntVal(x) == IF x.t = "bool" THEN (IF x.v THEN 1 ELSE 0) ELSE x.v

\* len(x) is defined (otherwise TypeError)
HasLen(x) == x.t \in {"list", "str", "dict"}

PyLen(x) == IF x.t = "dict" THEN Cardinality(DOMAIN x.v) ELSE Len(x.v)

\* iter(x) is defined for the kinds the model iterates (otherwise TypeError)
Iterable(x) == x.t \in {"list", "str"}

\* the elements a for loop over x visits: a str yields its characters
Elems(x) == IF x.t = "list" THEN x.v ELSE [i \in 1..Len(x.v) |-> VStr(<<x.v[i]>>)]

-----------------------------------------------------------------------------
(* ExcelBuilder *)

Sheets ==
  {"Item", "Submenu", "SubmenuItem", "ModifierGroup_Items", "ModifierGroup",
   "Category", "TaxGroup", "Menu", "MenuSubmenu"}

\* ExcelBuilder.__init__: self.data
init_data == [s \in Sheets |-> <<>>]

\* the ShortNames the record sets of self hold
UsedShortNames(self) ==
  {self["Item"][p][2] : p \in 1..Len(self["Item"])}
  \cup {self["ModifierGroup_Items"][p][2] : p \in 1..Len(self["ModifierGroup_Items"])}
  \cup {self["Submenu"][p][2] : p \in 1..Len(self["Submenu"])}

\* _get_names with a collision suffix but no memo of the names already
\* resolved: a second resolution of a string collides with its own first one
_get_names_nomemo(self, raw_name) ==
  IF ~Truthy(raw_name) THEN <<<<>>, <<>>>>
  ELSE LET clean == Strip(PyStr(raw_name))
           base == Take(clean, ShortMax)
       IN  <<IF VStr(base) \in UsedShortNames(self)
             THEN Take(clean, ShortMax - 1) \o <<"1">>
             ELSE base,
             Take(clean, LongMax)>>

\* _get_names with the truncations left out
_get_names_untruncated(self, raw_name) ==
  IF ~Truthy(raw_name) THEN <<<<>>, <<>>>>
  ELSE LET clean == Strip(PyStr(raw_name))
       IN  <<clean, clean>>

\* _get_names with a placeholder for a name that is missing or empty
_get_names_placeholder(self, raw_name) ==
  IF ~Truthy(raw_name) THEN <<<<"?">>, <<"?">>>>
  ELSE LET clean == Strip(PyStr(raw_name))
       IN  <<Take(clean, ShortMax), Take(clean, LongMax)>>

\* ExcelBuilder._get_names(self, raw_name): (ShortName, LongName)
_get_names(self, raw_name) ==
  IF ~Truthy(raw_name) THEN <<<<>>, <<>>>>
  ELSE LET clean == Strip(PyStr(raw_name))
       IN  <<Take(clean, ShortMax), Take(clean, LongMax)>>

\* string literals of add_data
STANDARD == VStr(<<"S", "t", "a", "n", "d", "a", "r", "d">>)
ITEM_PRICE == VStr(<<"I", "t", "e", "m", " ", "P", "r", "i", "c", "e">>)
ITEM_BUTTON == VStr(<<"I", "t", "e", "m", " ", "B", "u", "t", "t", "o", "n">>)
FORMULA_PRICE ==
  VStr(<<"F", "O", "R", "M", "U", "L", "A", "_", "P", "R", "I", "C", "E">>)

Max(a, b) == IF a > b THEN a ELSE b

\* json_data.get(key), without `or []`
doc_list_nodefault(json, key) == Get(json, key)

\* json_data.get(key, []): the default covers an absent key only
doc_list_default(json, key) == GetDefault(json, key, VList(<<>>))

\* json_data.get(key) or []
doc_list(json, key) == Or(Get(json, key), VList(<<>>))

\* x.get(field) or []
field_list(x, field) == Or(Get(x, field), VList(<<>>))

\* x.get("name") or ""
raw_name_of(x) == Or(Get(x, "name"), VStr(<<>>))

\* item_price with no fallback: a string float() rejects is kept as given
item_price_nofallback(item) ==
  IF item.t # "dict" THEN VFloat(0)
  ELSE LET price == GetDefault(item, "price", VFloat(0))
       IN  IF price.t = "str"
           THEN LET r == float_of_str(Remove(price.v, {"$", ","}))
                IN  IF r.ok THEN VFloat(r.v) ELSE price
           ELSE price

\* add_data, the try block of the item loop: an exception of item.get or of
\* float() leaves price = 0.0
item_price(item) ==
  IF item.t # "dict" THEN VFloat(0)
  ELSE LET price == GetDefault(item, "price", VFloat(0))
       IN  IF price.t = "str"
           THEN LET r == float_of_str(Remove(price.v, {"$", ","}))
                IN  IF r.ok THEN VFloat(r.v) ELSE VFloat(0)
           ELSE price

\* pad_modifiers with the padding left out
pad_modifiers_nopad(modifiers) == modifiers

\* modifiers += [None] * (10 - len(modifiers))
pad_modifiers(modifiers) ==
  modifiers \o Rep(None, Max(0, ModSlots - Len(modifiers)))

Raise(st, e) == [st EXCEPT !.exc = e]

\* add_data, one iteration of `for item in ...` (0-based position idx)
item_step(st, idx, item) ==
  IF item.t # "dict" THEN Raise(st, "AttributeError")
  ELSE
    LET names == _get_names(st.data, raw_name_of(item))
        modifiers == field_list(item, "modifiers")
    IN  IF ~HasLen(modifiers) \/ modifiers.t # "list" THEN Raise(st, "TypeError")
        ELSE
          LET padded == pad_modifiers(modifiers.v)
              row == <<Get(item, "number"), VStr(names[1]), VStr(names[2]),
                       STANDARD, item_price(item), ITEM_PRICE, None, None>>
                     \o Take(padded, ModSlots)
              \* the list padded in place is the document's own list unless
              \* `or []` replaced it by a fresh one
              json2 == IF Truthy(Get(item, "modifiers"))
                       THEN [st.json EXCEPT
                               !.v["items"].v[idx + 1].v["modifiers"].v = padded]
                       ELSE st.json
          IN  [st EXCEPT !.data["Item"] = Append(@, row), !.json = json2]

RECURSIVE items_from(_, _)
items_from(st, idx) ==
  LET L == Elems(doc_list(st.json, "items"))
  IN  IF idx >= Len(L) \/ st.exc # "none" THEN st
      ELSE items_from(item_step(st, idx, L[idx + 1]), idx + 1)

\* add_data, section 2: items
items_loop(st) ==
  IF ~Iterable(doc_list(st.json, "items")) THEN Raise(st, "TypeError")
  ELSE items_from(st, 0)

\* the modifier group's number
group_number(mg, mg_idx) ==
  LET n == Get(mg, "number")
      c == py_int(n)
      mg_num == IF IsInstanceInt(n) THEN IntVal(n)
                ELSE IF c.ok THEN c.v ELSE GroupNumMin + mg_idx
  IN  IF mg_num < GroupNumMin \/ mg_num > GroupNumMax
      THEN GroupNumMin + (mg_idx * GroupNumStep)
      ELSE mg_num

\* rows_needed without the minimum
rows_needed_nomin(items) == PyLen(items)

rows_needed(items) == Max(PyLen(items), MinRows)

\* row_pos computed like col_pos
row_pos_mod(i) == i % GridCols

row_pos(i) == i \div GridCols

col_pos(i) == i % GridCols

\* mg_row with the header columns filled on every row
mg_row_all_headers(i, mg_num, mg_short, mg_long, m_item_name, m_price, m_price_method) ==
  <<VInt(mg_num), VStr(mg_short), VStr(mg_long), None, None, None, None,
    VStr(mg_long), m_item_name, m_price, VInt(i \div GridCols),
    VInt(i % GridCols), m_price_method>>

\* the ModifierGroup_Items row of slot i
mg_row(i, mg_num, mg_short, mg_long, m_item_name, m_price, m_price_method) ==
  IF i = 0
  THEN <<VInt(mg_num), VStr(mg_short), VStr(mg_long), None, None, None, None,
         VStr(mg_long), m_item_name, m_price, VInt(row_pos(i)), VInt(col_pos(i)),
         m_price_method>>
  ELSE <<None, None, None, None, None, None, None,
         VStr(mg_long), m_item_name, m_price, VInt(row_pos(i)), VInt(col_pos(i)),
         m_price_method>>

\* float(m_item.get("price", 0.0)), 0.0 on any exception
member_price(m_item) ==
  LET r == py_float(GetDefault(m_item, "price", VFloat(0)))
  IN  IF r.ok THEN VFloat(r.v) ELSE VFloat(0)

\* add_data, one iteration of `for i in range(rows_needed)`
slot_step(st, i, items, mg_num, mg_names) ==
  IF i < PyLen(items)
  THEN
    IF items.t = "dict" THEN Raise(st, "KeyError")
    ELSE
      LET m_item == Elems(items)[i + 1]
      IN  IF m_item.t # "dict" THEN Raise(st, "AttributeError")
          ELSE
            LET m == _get_names(st.data, raw_name_of(m_item))
                m_number == mod_item_number_start + st.mod_item_count
                irow == <<VInt(m_number), VStr(m[1]), VStr(m[2]), STANDARD,
                          member_price(m_item), ITEM_PRICE, None, None>>
                        \o Rep(None, ModSlots)
                grow == mg_row(i, mg_num, mg_names[1], mg_names[2],
                               VStr(m[2]), FORMULA_PRICE, ITEM_PRICE)
            IN  [st EXCEPT !.data["Item"] = Append(@, irow),
                           !.data["ModifierGroup_Items"] = Append(@, grow),
                           !.mod_item_count = @ + 1]
  ELSE [st EXCEPT !.data["ModifierGroup_Items"] =
          Append(@, mg_row(i, mg_num, mg_names[1], mg_names[2], None, None, None))]

RECURSIVE slots_from(_, _, _, _, _)
slots_from(st, i, items, mg_num, mg_names) ==
  IF i >= rows_needed(items) \/ st.exc # "none" THEN st
  ELSE slots_from(slot_step(st, i, items, mg_num, mg_names), i + 1, items,
                  mg_num, mg_names)

\* group_step with the member counter restarted at every group
group_step_restart(st, mg_idx, mg) ==
  IF mg.t # "dict" THEN Raise(st, "AttributeError")
  ELSE
    LET mg_names == _get_names(st.data, raw_name_of(mg))
        mg_num == group_number(mg, mg_idx)
        items == field_list(mg, "items")
    IN  IF ~HasLen(items) THEN Raise(st, "TypeError")
        ELSE slots_from([st EXCEPT !.mod_item_count = 0], 0, items, mg_num,
                        mg_names)

\* add_data, one iteration of `for mg_idx, mg in enumerate(...)`
group_step(st, mg_idx, mg) ==
  IF mg.t # "dict" THEN Raise(st, "AttributeError")
  ELSE
    LET mg_names == _get_names(st.data, raw_name_of(mg))
        mg_num == group_number(mg, mg_idx)
        items == field_list(mg, "items")
    IN  IF ~HasLen(items) THEN Raise(st, "TypeError")
        ELSE slots_from(st, 0, items, mg_num, mg_names)

RECURSIVE groups_from(_, _)
groups_from(st, mg_idx) ==
  LET L == Elems(doc_list(st.json, "modifier_groups"))
  IN  IF mg_idx >= Len(L) \/ st.exc # "none" THEN st
      ELSE groups_from(group_step(st, mg_idx, L[mg_idx + 1]), mg_idx + 1)

\* add_data, section 3: modifier groups and their member items
groups_loop(st) ==
  IF ~Iterable(doc_list(st.json, "modifier_groups")) THEN Raise(st, "TypeError")
  ELSE groups_from([st EXCEPT !.mod_item_count = 0], 0)

\* the SubmenuItem row of the idx-th declared item name
sm_item_row(sm_long, idx, item_name) ==
  <<VStr(sm_long), ITEM_BUTTON, item_name, ITEM_PRICE, VInt(row_pos(idx)),
    VInt(col_pos(idx)), FORMULA_PRICE>>

\* add_data, one iteration of `for sm in ...`
submenu_step(st, sm) ==
  IF sm.t # "dict" THEN Raise(st, "AttributeError")
  ELSE
    LET sm_names == _get_names(st.data, raw_name_of(sm))
        srow == <<Get(sm, "number"), VStr(sm_names[1]), VStr(sm_names[2])>>
        st1 == [st EXCEPT !.data["Submenu"] = Append(@, srow)]
        items == field_list(sm, "items")
    IN  IF ~Iterable(items) THEN Raise(st1, "TypeError")
        ELSE [st1 EXCEPT !.data["SubmenuItem"] =
                @ \o [k \in 1..Len(Elems(items)) |->
                        sm_item_row(sm_names[2], k - 1, Elems(items)[k])]]

RECURSIVE submenus_from(_, _)
submenus_from(st, k) ==
  LET L == Elems(doc_list(st.json, "submenus"))
  IN  IF k >= Len(L) \/ st.exc # "none" THEN st
      ELSE submenus_from(submenu_step(st, L[k + 1]), k + 1)

\* add_data, section 4: submenus
submenus_loop(st) ==
  IF ~Iterable(doc_list(st.json, "submenus")) THEN Raise(st, "TypeError")
  ELSE submenus_from(st, 0)

\* add_data with a first section that stores the document's categories
add_data_categories(self, json) ==
  LET cats == Elems(doc_list(json, "categories"))
      rows == [k \in 1..Len(cats) |-> <<Get(cats[k], "number"), Get(cats[k], "name")>>]
      s0 == [data |-> [self EXCEPT !["Category"] = @ \o rows], json |-> json,
             exc |-> "none", mod_item_count |-> 0]
      s1 == items_loop(s0)
      s2 == IF s1.exc = "none" THEN groups_loop(s1) ELSE s1
  IN  IF s2.exc = "none" THEN submenus_loop(s2) ELSE s2

\* ExcelBuilder.add_data(self, json_data): the record sets and the document
\* after the call, and the exception that escaped it ("none" when it returned)
add_data(self, json) ==
  LET s0 == [data |-> self, json |-> json, exc |-> "none", mod_item_count |-> 0]
      s1 == items_loop(s0)
      s2 == IF s1.exc = "none" THEN groups_loop(s1) ELSE s1
  IN  IF s2.exc = "none" THEN submenus_loop(s2) ELSE s2

-----------------------------------------------------------------------------
(* ExcelBuilder.build_final(is_empty_template=False): the rows handed to the *)
(* worksheets.  Styles, validations and protection carry no row data and    *)
(* are left out; the template is taken to hold every target sheet.         *)

Lower ==
  {"a", "b", "c", "d", "e", "f", "g", "h", "i", "j", "k", "l", "m", "n", "o",
   "p", "q", "r", "s", "t", "u", "v", "w", "x", "y", "z"}

Upper ==
  {"A", "B", "C", "D", "E", "F", "G", "H", "I", "J", "K", "L", "M", "N", "O",
   "P", "Q", "R", "S", "T", "U", "V", "W", "X", "Y", "Z"}

\* the characters the pattern of clean_text keeps
SafeChar(c) ==
  \/ c \in Lower \/ c \in Upper \/ IsDigit(c) \/ IsSpace(c)
  \/ c \in {".", ",", "'", "-", "(", ")", "&", "/", "<", ">"}

\* ExcelBuilder.clean_text(self, text) for a str text
clean_text(text) ==
  IF ~Truthy(text) THEN None
  ELSE VStr(Strip(SelectSeq(text.v, SafeChar)))

target_sheets ==
  <<"Item", "Submenu", "SubmenuItem", "ModifierGroup_Items", "Menu", "Category",
    "TaxGroup", "MenuSubmenu">>

\* f"=IFERROR(VLOOKUP({col}{curr_row}, Item!$B:$E, 4, FALSE), 0.00)"
lookup_formula(col, curr_row) ==
  VStr(<<"=", "I", "F", "E", "R", "R", "O", "R", "(", "V", "L", "O", "O", "K",
         "U", "P", "(", col>>
       \o NatStr(curr_row)
       \o <<",", " ", "I", "t", "e", "m", "!", "$", "B", ":", "$", "E", ",", " ",
            "4", ",", " ", "F", "A", "L", "S", "E", ")", ",", " ", "0", ".", "0",
            "0", ")">>)

\* build_final, "Formula Logic (Price Link)" with the test on the sentinel
\* left out: every price cell becomes a formula
price_link_always(sheet_name, row_data, curr_row) ==
  IF sheet_name = "ModifierGroup_Items" /\ Len(row_data) > 9
  THEN [row_data EXCEPT ![10] = lookup_formula("I", curr_row)]
  ELSE IF sheet_name = "SubmenuItem" /\ Len(row_data) > 6
  THEN [row_data EXCEPT ![7] = lookup_formula("C", curr_row)]
  ELSE row_data

\* build_final, "Formula Logic (Price Link)": row_data after the step (the
\* row is the list self.data holds, changed in place)
price_link(sheet_name, row_data, curr_row) ==
  IF sheet_name = "ModifierGroup_Items" /\ Len(row_data) > 9
     /\ row_data[10] = FORMULA_PRICE
  THEN [row_data EXCEPT ![10] = lookup_formula("I", curr_row)]
  ELSE IF sheet_name = "SubmenuItem" /\ Len(row_data) > 6
          /\ row_data[7] = FORMULA_PRICE
  THEN [row_data EXCEPT ![7] = lookup_formula("C", curr_row)]
  ELSE row_data

\* build_final, "Clean Text": one value of the row
clean_val(val) ==
  IF val.t = "str" /\ ~(val.v # <<>> /\ Head(val.v) = "=") THEN clean_text(val)
  ELSE val

\* ws.append(clean_row) takes numbers, strings, booleans and None as cell
\* values; any other value makes it raise ValueError
Appendable(clean_row) ==
  \A c \in 1..Len(clean_row) : clean_row[c].t \notin {"list", "dict"}

\* the rows of self.data build_final walks for a sheet
rows_of(self, sheet_name) ==
  IF sheet_name \in {"Category", "TaxGroup", "MenuSubmenu"} THEN <<>>
  ELSE self[sheet_name]

\* build_final, one iteration of `for idx, row_data in enumerate(rows)`
row_step(bs, sheet_name, idx) ==
  LET row_data == price_link(sheet_name, bs.data[sheet_name][idx + 1], idx + 2)
      clean_row == [c \in 1..Len(row_data) |-> clean_val(row_data[c])]
  IN  [bs EXCEPT !.data[sheet_name][idx + 1] = row_data,
                 !.wb[sheet_name] = Append(@, clean_row),
                 !.exc = IF Appendable(clean_row) THEN "none" ELSE "ValueError"]

RECURSIVE rows_from(_, _, _)
rows_from(bs, sheet_name, idx) ==
  IF idx >= Len(rows_of(bs.data, sheet_name)) \/ bs.exc # "none" THEN bs
  ELSE rows_from(row_step(bs, sheet_name, idx), sheet_name, idx + 1)

RECURSIVE sheets_from(_, _)
sheets_from(bs, k) ==
  IF k > Len(target_sheets) \/ bs.exc # "none" THEN bs
  ELSE sheets_from(rows_from(bs, target_sheets[k], 0), k + 1)

\* ExcelBuilder.build_final(self, is_empty_template=False): the record sets
\* after the call, the rows handed to each worksheet, and the exception that
\* escaped ("none" when the workbook was returned)
build_final(self) ==
  sheets_from([data |-> self, wb |-> [s \in Sheets |-> <<>>], exc |-> "none"], 1)

-----------------------------------------------------------------------------
(* The documents fed to add_data *)

\* a dict with one key
D1(k, x) == VDict(k :> x)

\* the union of two dicts with disjoint keys
Merge(a, b) == VDict(a.v @@ b.v)

STR_ab == <<"a", "b">>
STR_g1 == <<"g", "1">>
STR_Toppings == <<"T", "o", "p", "p", "i", "n", "g", "s">>

\* raw names: empty, short, exactly ShortMax long, two longer names with the
\* same first ShortMax characters (one longer than LongMax), a name that
\* differs from a short one by surrounding blanks only, a name with
\* characters outside the safe set, and a name of ShortMax safe characters
\* after one unsafe character
NamePool ==
  {<<>>, STR_ab, Rep("a", ShortMax), Rep("a", ShortMax) \o <<"b">>,
   Rep("a", MaxNameLen), <<" ">> \o STR_ab \o <<" ">>, <<"=", "a", "#">>,
   <<"#">> \o Rep("a", ShortMax)}

\* a field that the mapping does not have
ABSENT == [t |-> "absent"]

\* a name field: absent, null, or a string
NameFields == {ABSENT, None} \cup {VStr(n) : n \in NamePool}

\* the dict {key: x}, or {} when the field is absent
Field(key, x) == IF x.t = "absent" THEN EmptyDict ELSE D1(key, x)

\* the dict d with its field key set to x (removed when x is ABSENT)
With(d, key, x) ==
  Merge(Field(key, x), VDict([j \in (DOMAIN d.v) \ {key} |-> d.v[j]]))

\* price fields: absent, null, float, int, negative, "$9.50", "1,050",
\* a non-numeric string, a list
PricePool ==
  {ABSENT, None, VFloat(950), VInt(10), VFloat(-500),
   VStr(<<"$", "9", ".", "5", "0">>), VStr(<<"1", ",", "0", "5", "0">>),
   VStr(<<"x">>), VList(<<>>)}

\* the modifiers g1 .. gn
ModNames(n) == VList([k \in 1..n |-> VStr(<<"g">> \o NatStr(k))])

\* modifiers fields: absent, null, empty, a declared group, an undeclared
\* one, lists around the slot count, and two values that are not lists
ModsPool ==
  {ABSENT, None, VList(<<>>), VList(<<VStr(STR_g1)>>),
   VList(<<VStr(STR_Toppings)>>), VList(<<VStr(STR_g1), VStr(STR_Toppings)>>),
   VStr(STR_ab), VInt(5)}
  \cup {ModNames(n) : n \in (ModSlots - 1)..MaxMods}

ItemNumberPool == {ABSENT, None, VInt(100), VStr(<<"7">>)}

DefaultItem ==
  VDict([name |-> VStr(STR_ab), price |-> VFloat(950), number |-> VInt(100),
         modifiers |-> VList(<<VStr(STR_g1)>>)])

\* values of the key "items"
ItemsPool ==
  {ABSENT, None, VList(<<>>), VInt(5), VStr(STR_ab), VList(<<None>>),
   VList(<<DefaultItem, VStr(STR_ab)>>)}
  \cup {VList(<<Field("name", a), Field("name", b)>>) : a, b \in NameFields}
  \cup {VList(<<With(DefaultItem, "price", x)>>) : x \in PricePool}
  \cup {VList(<<With(DefaultItem, "modifiers", x)>>) : x \in ModsPool}
  \cup {VList(<<With(DefaultItem, "number", x)>>) : x \in ItemNumberPool}

\* the member item named m<k>, or "ab" for k = 1
MemberN(k) ==
  VDict([name |-> VStr(IF k = 1 THEN STR_ab ELSE <<"m">> \o NatStr(k)),
         price |-> VFloat(100)])

Members(n) == VList([k \in 1..n |-> MemberN(k)])

\* values of a modifier group's "items"
GroupItemsPool ==
  {ABSENT, None, VList(<<>>), VInt(3), VStr(STR_ab), VList(<<None>>),
   VList(<<MemberN(1), VStr(STR_ab)>>), VList(<<MemberN(1), MemberN(1)>>)}
  \cup {Members(n) : n \in 1..MaxMembers}
  \cup {VList(<<Field("name", a)>>) : a \in NameFields}
  \cup {VList(<<With(MemberN(1), "price", x)>>) : x \in PricePool}

\* values of a modifier group's "number"
GroupNumberPool ==
  {ABSENT, None, VInt(12000), VInt(5), VInt(20000),
   VStr(<<"1", "2", "0", "0", "0">>), VStr(<<"x">>), VFloat(1200050),
   VBool(TRUE), VList(<<>>)}

DefaultGroup ==
  VDict([name |-> VStr(STR_g1), number |-> VInt(12000), items |-> Members(2)])

\* values of the key "modifier_groups"
GroupsPool ==
  {ABSENT, None, VList(<<>>), VInt(5), VList(<<VStr(STR_ab)>>),
   VList(<<DefaultGroup, None>>)}
  \cup {VList(<<With(DefaultGroup, "name", a)>>) : a \in NameFields}
  \cup {VList(<<With(DefaultGroup, "items", x)>>) : x \in GroupItemsPool}
  \cup {VList(<<With(DefaultGroup, "number", x)>>) : x \in GroupNumberPool}
  \cup {VList(<<DefaultGroup, With(DefaultGroup, "name", a)>>) : a \in NameFields}
  \cup {VList(<<DefaultGroup, With(DefaultGroup, "number", x)>>) :
          x \in GroupNumberPool}

\* the declared item names "ab", i2 .. in
SubNames(n) ==
  VList([k \in 1..n |-> VStr(IF k = 1 THEN STR_ab ELSE <<"i">> \o NatStr(k))])

\* values of a submenu's "items"
SubItemsPool ==
  {ABSENT, None, VList(<<>>), VInt(3), VStr(STR_ab), VList(<<None>>)}
  \cup {SubNames(n) : n \in 1..MaxSubItems}
  \cup {VList(<<VStr(a)>>) : a \in NamePool}

DefaultSubmenu ==
  VDict([name |-> VStr(<<"s", "1">>), number |-> VInt(200),
         items |-> SubNames(MaxSubItems)])

\* values of the key "submenus"
SubmenusPool ==
  {ABSENT, None, VList(<<>>), VInt(5), VList(<<VStr(STR_ab)>>),
   VList(<<DefaultSubmenu, None>>)}
  \cup {VList(<<With(DefaultSubmenu, "name", a)>>) : a \in NameFields}
  \cup {VList(<<With(DefaultSubmenu, "number", x)>>) : x \in ItemNumberPool}
  \cup {VList(<<With(DefaultSubmenu, "items", x)>>) : x \in SubItemsPool}
  \cup {VList(<<DefaultSubmenu, With(DefaultSubmenu, "items", x)>>) :
          x \in SubItemsPool}

ItemsCore == {ABSENT, VList(<<DefaultItem>>)}
GroupsCore == {ABSENT, VList(<<DefaultGroup>>)}
SubmenusCore == {ABSENT, VList(<<DefaultSubmenu>>)}

\* a value of the key "categories", which add_data does not read
Categories ==
  VList(<<VDict([number |-> VInt(1), name |-> VStr(<<"F", "o", "o", "d">>)])>>)

MakeDoc(i, g, s) ==
  Merge(Merge(Field("items", i), Field("modifier_groups", g)),
        Field("submenus", s))

\* one top-level item named n and a submenu that declares n among its items
NamedItemInSubmenu(n) ==
  MakeDoc(VList(<<Field("name", VStr(n))>>), ABSENT,
          VList(<<With(DefaultSubmenu, "items",
                       VList(<<VStr(<<"i", "2">>), VStr(n)>>))>>))

\* the documents of the model: each of the three keys ranges over its pool
\* while the other two are absent or hold one ordinary entry
Docs ==
  {MakeDoc(i, g, s) : i \in ItemsPool, g \in GroupsCore, s \in SubmenusCore}
  \cup {MakeDoc(i, g, s) : i \in ItemsCore, g \in GroupsPool, s \in SubmenusCore}
  \cup {MakeDoc(i, g, s) : i \in ItemsCore, g \in GroupsCore, s \in SubmenusPool}
  \cup {With(MakeDoc(i, g, s), "categories", Categories) :
          i \in ItemsCore, g \in GroupsCore, s \in SubmenusCore}
  \cup {NamedItemInSubmenu(n) : n \in NamePool}

-----------------------------------------------------------------------------
(* The state machine: one builder, one document object, add_data calls *)

TypeOK ==
  /\ DOMAIN data = Sheets
  /\ exc \in {"none", "AttributeError", "TypeError", "KeyError"}
  /\ calls \in 0..MaxCalls
  /\ DOMAIN wb = Sheets
  /\ wb_exc \in {"none", "ValueError"}
  /\ builds \in 0..MaxBuilds

\* no group-number computation is under way
GroupNumberIdle == gn_mg = None /\ gn_idx = 0 /\ gn_num = None

\* _generate_with_retry has not been entered
NoRetry ==
  [pc |-> "idle", max_retries |-> 0, attempt |-> 0, calls |-> 0,
   error_str |-> <<>>, sleep_time |-> 0, log |-> <<>>, waits |-> <<>>,
   result |-> None]

RetryIdle == retry = NoRetry

\* builder = ExcelBuilder(), and the document the caller holds
Init ==
  /\ data = init_data
  /\ json_data \in Docs
  /\ exc = "none"
  /\ calls = 0
  /\ wb = [s \in Sheets |-> <<>>]
  /\ wb_exc = "none"
  /\ builds = 0
  /\ GroupNumberIdle
  /\ RetryIdle

\* builder.add_data(json_data)
AddData ==
  /\ calls < MaxCalls
  /\ LET r == add_data(data, json_data)
     IN  /\ data' = r.data
         /\ json_data' = r.json
         /\ exc' = r.exc
  /\ calls' = calls + 1
  /\ UNCHANGED <<wb, wb_exc, builds, gn_mg, gn_idx, gn_num, retry>>

\* builder.build_excel()
BuildFinal ==
  /\ builds < MaxBuilds
  /\ LET r == build_final(data)
     IN  /\ data' = r.data
         /\ wb' = r.wb
         /\ wb_exc' = r.exc
  /\ builds' = builds + 1
  /\ UNCHANGED <<json_data, exc, calls, gn_mg, gn_idx, gn_num, retry>>

Next == AddData \/ BuildFinal

Spec == Init /\ [][Next]_vars

-----------------------------------------------------------------------------
(* The group-number rule of add_data taken alone, for a group at any        *)
(* position of the list                                                    *)

\* values of "number" around the ends of the range, besides GroupNumberPool
GroupNumberInputs ==
  GroupNumberPool
  \cup {VInt(GroupNumMin), VInt(GroupNumMax), VInt(GroupNumMin - 1), VInt(-1),
        VFloat(100 * GroupNumMax + 99), VStr(<<"-", "5">>)}

InitGroupNumber ==
  /\ data = init_data
  /\ json_data = EmptyDict
  /\ exc = "none"
  /\ calls = 0
  /\ wb = [s \in Sheets |-> <<>>]
  /\ wb_exc = "none"
  /\ builds = 0
  /\ gn_mg \in {With(DefaultGroup, "number", x) : x \in GroupNumberInputs}
  /\ gn_idx \in 0..MaxGroupIndex
  /\ gn_num = None
  /\ RetryIdle

\* add_data, lines 274-280, for mg = gn_mg at position mg_idx = gn_idx
GroupNumber ==
  /\ gn_num = None
  /\ gn_num' = VInt(group_number(gn_mg, gn_idx))
  /\ UNCHANGED <<data, json_data, exc, calls, wb, wb_exc, builds, gn_mg, gn_idx,
                 retry>>

NextGroupNumber == GroupNumber

SpecGroupNumber == InitGroupNumber /\ [][NextGroupNumber]_vars

-----------------------------------------------------------------------------
(* AIService._generate_with_retry(self, model, inputs, max_retries): the     *)
(* loop of attempts.  model.generate_content and response.text either raise *)
(* an exception with a message or hand back the response text.              *)

Alphabet ==
  <<"a", "b", "c", "d", "e", "f", "g", "h", "i", "j", "k", "l", "m", "n", "o",
    "p", "q", "r", "s", "t", "u", "v", "w", "x", "y", "z">>

Capitals ==
  <<"A", "B", "C", "D", "E", "F", "G", "H", "I", "J", "K", "L", "M", "N", "O",
    "P", "Q", "R", "S", "T", "U", "V", "W", "X", "Y", "Z">>

\* str.lower()
lower(s) ==
  [i \in 1..Len(s) |->
     IF \E k \in 1..26 : Capitals[k] = s[i]
     THEN Alphabet[CHOOSE k \in 1..26 : Capitals[k] = s[i]]
     ELSE s[i]]

\* s.find(sub) + 1: the position of the first occurrence of sub, 0 for none
Find(s, sub) ==
  LET at == {i \in 1..(Len(s) - Len(sub) + 1) :
               SubSeq(s, i, i + Len(sub) - 1) = sub}
  IN  IF at = {} THEN 0 ELSE CHOOSE i \in at : \A j \in at : i <= j

\* sub in s
Contains(s, sub) == Find(s, sub) # 0

\* s.split(sep)[0]
SplitFirst(s, sep) ==
  IF Contains(s, sep) THEN SubSeq(s, 1, Find(s, sep) - 1) ELSE s

\* s.split(sep)[1], for s that holds sep
SplitSecond(s, sep) ==
  SplitFirst(SubSeq(s, Find(s, sep) + Len(sep), Len(s)), sep)

\* the code fence of three backquotes; the backquote is written "~" here
FENCE == <<"~", "~", "~">>
FENCE_JSON == FENCE \o <<"j", "s", "o", "n">>

\* lines 224-227: the text between the code fences, when there are any
unfence(text) ==
  IF Contains(text, FENCE_JSON)
  THEN SplitFirst(SplitSecond(text, FENCE_JSON), FENCE)
  ELSE IF Contains(text, FENCE) THEN SplitFirst(SplitSecond(text, FENCE), FENCE)
  ELSE text

\* the message of json.JSONDecodeError for a text with no JSON value at its
\* start
EXPECTING_VALUE ==
  <<"E", "x", "p", "e", "c", "t", "i", "n", "g", " ", "v", "a", "l", "u",
    "e", ":", " ", "l", "i", "n", "e", " ", "1", " ", "c", "o", "l", "u",
    "m", "n", " ", "1", " ", "(", "c", "h", "a", "r", " ", "0", ")">>

\* json.loads(text) for the texts of ResponseTexts: the value of the JSON
\* documents {}, [] and null (blanks around them allowed), and
\* JSONDecodeError for a text that is blank or starts with another word
json_loads(text) ==
  LET body == Strip(text)
  IN  IF body = <<"{", "}">> THEN [ok |-> TRUE, v |-> EmptyDict]
      ELSE IF body = <<"[", "]">> THEN [ok |-> TRUE, v |-> VList(<<>>)]
      ELSE IF body = <<"n", "u", "l", "l">> THEN [ok |-> TRUE, v |-> None]
      ELSE [ok |-> FALSE, v |-> EXPECTING_VALUE]

\* response texts of the model
ResponseTexts ==
  {<<"{", "}">>, <<"[", "]">>, <<"n", "u", "l", "l">>, <<"o", "k">>,
   FENCE_JSON \o <<"\n", "{", "}", "\n">> \o FENCE,
   FENCE \o <<"{", "}">> \o FENCE \o <<"x">>}

\* messages of the exceptions generate_content raises
ErrorMessages ==
  {<<"4", "2", "9", " ", "R", "a", "t", "e">>,
   <<"Q", "u", "o", "t", "a", " ", "e", "x", "c", "e", "e", "d", "e", "d">>,
   <<"5", "0", "0", " ", "I", "n", "t", "e", "r", "n", "a", "l">>}

\* what one call of the model and the reading of response.text produce
Responses ==
  {[raised |-> FALSE, text |-> t] : t \in ResponseTexts}
  \cup {[raised |-> TRUE, text |-> m] : m \in ErrorMessages}

\* random.uniform(0, 1), in hundredths
Jitter == {0, 50, 100}

\* line 232: "429" in error_str or "quota" in error_str.lower()
rate_limited(error_str) ==
  \/ Contains(error_str, <<"4", "2", "9">>)
  \/ Contains(lower(error_str), <<"q", "u", "o", "t", "a">>)

\* line 240: {"error": f"Failed after {max_retries} attempts: {str(e)}"}
failed_after(max_retries, error_str) ==
  VDict([error |->
           VStr(<<"F", "a", "i", "l", "e", "d", " ", "a", "f", "t", "e", "r",
                  " ">>
                \o NatStr(max_retries)
                \o <<" ", "a", "t", "t", "e", "m", "p", "t", "s", ":", " ">>
                \o error_str)])

\* 2 ** attempt
RECURSIVE Pow2(_)
Pow2(n) == IF n = 0 THEN 1 ELSE 2 * Pow2(n - 1)

\* the call _generate_with_retry(model, inputs, max_retries) is entered
InitRetry ==
  /\ data = init_data
  /\ json_data = EmptyDict
  /\ exc = "none"
  /\ calls = 0
  /\ wb = [s \in Sheets |-> <<>>]
  /\ wb_exc = "none"
  /\ builds = 0
  /\ GroupNumberIdle
  /\ \E n \in 0..MaxRetries :
       retry = [NoRetry EXCEPT !.pc = "for", !.max_retries = n, !.attempt = -1]

\* for attempt in range(max_retries): the next attempt, or the end of the
\* function when the range is used up
ForAttempt ==
  /\ retry.pc = "for"
  /\ retry' = IF retry.attempt + 1 < retry.max_retries
               THEN [retry EXCEPT !.attempt = @ + 1, !.pc = "try"]
               ELSE [retry EXCEPT !.pc = "return", !.result = None]
  /\ UNCHANGED <<data, json_data, exc, calls, wb, wb_exc, builds, gn_mg, gn_idx,
                 gn_num>>

\* lines 220-229, the try block: one call of the model, then the text is
\* unfenced and parsed
TryGenerate ==
  /\ retry.pc = "try"
  /\ \E response \in Responses :
       LET parsed == json_loads(unfence(response.text))
           msg == IF response.raised THEN response.text ELSE parsed.v
       IN  retry' =
             IF ~response.raised /\ parsed.ok
             THEN [retry EXCEPT !.calls = @ + 1, !.pc = "return",
                                !.result = parsed.v,
                                !.log = Append(@, <<"ok", parsed.v>>)]
             ELSE [retry EXCEPT !.calls = @ + 1, !.pc = "except",
                                !.error_str = msg,
                                !.log = Append(@, <<"raised", msg>>)]
  /\ UNCHANGED <<data, json_data, exc, calls, wb, wb_exc, builds, gn_mg, gn_idx,
                 gn_num>>

\* lines 230-240, the except block
Except ==
  /\ retry.pc = "except"
  /\ \E j \in Jitter :
       retry' =
         IF rate_limited(retry.error_str)
            /\ retry.attempt < retry.max_retries - 1
         THEN [retry EXCEPT !.pc = "sleep",
                            !.sleep_time = 100 * Pow2(retry.attempt) + j]
         ELSE IF retry.attempt = retry.max_retries - 1
         THEN [retry EXCEPT !.pc = "return",
                            !.result = failed_after(retry.max_retries,
                                                    retry.error_str)]
         ELSE [retry EXCEPT !.pc = "for"]
  /\ UNCHANGED <<data, json_data, exc, calls, wb, wb_exc, builds, gn_mg, gn_idx,
                 gn_num>>

\* lines 236-237: time.sleep(sleep_time); continue
Sleep ==
  /\ retry.pc = "sleep"
  /\ retry' = [retry EXCEPT !.pc = "for",
                            !.waits = Append(@, <<retry.attempt,
                                                  retry.sleep_time>>)]
  /\ UNCHANGED <<data, json_data, exc, calls, wb, wb_exc, builds, gn_mg, gn_idx,
                 gn_num>>

NextRetry == ForAttempt \/ TryGenerate \/ Except \/ Sleep

SpecRetry == InitRetry /\ [][NextRetry]_vars

\* with the scheduler running the function to its end
FairSpecRetry == SpecRetry /\ WF_vars(NextRetry)

-----------------------------------------------------------------------------
(* Reading the document and the record sets, for the properties below *)

\* the list a mapping declares under key: empty when the key is absent, null
\* or not a list
Declared(d, key) ==
  IF d.t = "dict" /\ key \in DOMAIN d.v /\ d.v[key].t = "list" THEN d.v[key].v
  ELSE <<>>

\* the value of a field, None when the mapping does not have it
FieldOf(d, key) == IF d.t = "dict" /\ key \in DOMAIN d.v THEN d.v[key] ELSE None

DocItems == Declared(json_data, "items")
DocGroups == Declared(json_data, "modifier_groups")
DocSubmenus == Declared(json_data, "submenus")

NMembers(j) == Len(Declared(DocGroups[j], "items"))
NSlots(j) == IF NMembers(j) > 6 THEN NMembers(j) ELSE 6
NSubItems(k) == Len(Declared(DocSubmenus[k], "items"))

RECURSIVE MembersBefore(_)
MembersBefore(j) == IF j <= 1 THEN 0 ELSE MembersBefore(j - 1) + NMembers(j - 1)

RECURSIVE SlotsBefore(_)
SlotsBefore(j) == IF j <= 1 THEN 0 ELSE SlotsBefore(j - 1) + NSlots(j - 1)

RECURSIVE SubItemsBefore(_)
SubItemsBefore(k) == IF k <= 1 THEN 0 ELSE SubItemsBefore(k - 1) + NSubItems(k - 1)

\* one add_data call was made on the fresh builder and it returned
Assembled == calls = 1 /\ exc = "none"

\* the ItemRecord of the i-th top-level item, of the i-th member of group j
TopItemRow(i) == data["Item"][i]
MemberItemRow(j, i) == data["Item"][Len(DocItems) + MembersBefore(j) + i]

\* the rows of ModifierGroup_Items that open a group (their number is set),
\* in order
HeaderRows ==
  SelectSeq(data["ModifierGroup_Items"], LAMBDA r : r[1] # None)

\* the positions in ModifierGroup_Items of the rows that open a group
HeaderPos ==
  {p \in 1..Len(data["ModifierGroup_Items"]) :
     data["ModifierGroup_Items"][p][1] # None}

\* the number of rows from the header at position p up to the next header
SegmentLen(p) ==
  LET later == {q \in HeaderPos : q > p}
      stop == IF later = {} THEN Len(data["ModifierGroup_Items"]) + 1
              ELSE CHOOSE q \in later : \A q2 \in later : q <= q2
  IN  stop - p

\* the slot i (0-based) of group j, by the slot counts the groups declare
GroupSlot(j, i) == data["ModifierGroup_Items"][SlotsBefore(j) + i + 1]

\* the slot i (0-based) of submenu k
SubmenuSlot(k, i) == data["SubmenuItem"][SubItemsBefore(k) + i + 1]

\* every resolved name of the document: the entity, its raw name field and
\* the (ShortName, LongName) the record sets hold for it
Resolved ==
  {[kind |-> "item", at |-> <<i, 0>>, raw |-> FieldOf(DocItems[i], "name"),
    short |-> TopItemRow(i)[2], long |-> TopItemRow(i)[3]] :
     i \in 1..Len(DocItems)}
  \cup
  {[kind |-> "group", at |-> <<j, 0>>, raw |-> FieldOf(DocGroups[j], "name"),
    short |-> HeaderRows[j][2], long |-> HeaderRows[j][3]] :
     j \in 1..Len(DocGroups)}
  \cup
  UNION {{[kind |-> "member", at |-> <<j, i>>,
           raw |-> FieldOf(Declared(DocGroups[j], "items")[i], "name"),
           short |-> MemberItemRow(j, i)[2], long |-> MemberItemRow(j, i)[3]] :
            i \in 1..NMembers(j)} : j \in 1..Len(DocGroups)}
  \cup
  {[kind |-> "submenu", at |-> <<k, 0>>, raw |-> FieldOf(DocSubmenus[k], "name"),
    short |-> data["Submenu"][k][2], long |-> data["Submenu"][k][3]] :
     k \in 1..Len(DocSubmenus)}

NonEmptyName(x) == x.t = "str" /\ x.v # <<>>

-----------------------------------------------------------------------------
(* C1 .. C10 *)

\* C1: within one document, two different non-empty original name strings
\* (of any entity kind) never get the same ShortName.
C1_DistinctNamesDistinctShortNames ==
  Assembled =>
    \A e1, e2 \in Resolved :
      (NonEmptyName(e1.raw) /\ NonEmptyName(e2.raw) /\ e1.raw # e2.raw)
        => e1.short # e2.short

\* C2: the same original string resolved twice within one document gets the
\* identical (ShortName, LongName) pair both times, whatever was resolved in
\* between.
C2_SameNameSamePair ==
  Assembled =>
    \A e1, e2 \in Resolved :
      (e1.raw.t = "str" /\ e1.raw = e2.raw)
        => (e1.short = e2.short /\ e1.long = e2.long)

\* a non-empty original string is resolved for an item and again for a member
\* of a modifier group, with the group's own name resolved in between
C2_Witness ==
  /\ Assembled
  /\ \E e1, e2 \in Resolved :
       /\ e1.kind = "item" /\ e2.kind = "member"
       /\ NonEmptyName(e1.raw) /\ e1.raw = e2.raw
       /\ e1.short # <<>>

\* the ShortName / LongName columns of the rows of a record set
NameColumnsBounded(rows) ==
  \A p \in 1..Len(rows) :
    /\ rows[p][2] # None => (rows[p][2].t = "str" /\ Len(rows[p][2].v) <= 15)
    /\ rows[p][3] # None => (rows[p][3].t = "str" /\ Len(rows[p][3].v) <= 23)

\* C3: every ShortName column of the Item, ModifierGroup_Items and Submenu
\* record sets holds at most 15 characters and every LongName column at most
\* 23, for raw names of any length.
C3_NameLengths ==
  /\ NameColumnsBounded(data["Item"])
  /\ NameColumnsBounded(data["ModifierGroup_Items"])
  /\ NameColumnsBounded(data["Submenu"])

\* an item whose raw name is longer than 23 characters was assembled, and its
\* names fill both budgets
C3_Witness ==
  /\ Assembled
  /\ \E e \in Resolved :
       /\ e.kind = "item" /\ e.raw.t = "str" /\ Len(e.raw.v) > 23
       /\ Len(e.short.v) = 15 /\ Len(e.long.v) = 23

\* C4: every modifier group of the input gets exactly max(6, number of
\* declared items) member slots, a group with no, absent or null items too.
C4_SlotCount ==
  Assembled =>
    /\ Len(HeaderRows) = Len(DocGroups)
    /\ \A p \in HeaderPos :
         LET j == Cardinality({q \in HeaderPos : q <= p})
         IN  SegmentLen(p) = (IF NMembers(j) > 6 THEN NMembers(j) ELSE 6)

\* a group whose items field is null was assembled and got six slots
C4_Witness ==
  /\ Assembled
  /\ Len(DocGroups) = 1
  /\ "items" \in DOMAIN DocGroups[1].v /\ DocGroups[1].v["items"] = None
  /\ Len(data["ModifierGroup_Items"]) = 6

\* C5: the i-th member slot of every modifier group and of every submenu
\* carries (row, column) = (i div 3, i mod 3), and no two slots of one parent
\* carry the same pair.
C5_GridPositions ==
  Assembled =>
    /\ \A j \in 1..Len(DocGroups) :
         /\ \A i \in 0..(NSlots(j) - 1) :
              /\ GroupSlot(j, i)[11] = VInt(i \div 3)
              /\ GroupSlot(j, i)[12] = VInt(i % 3)
         /\ \A i1, i2 \in 0..(NSlots(j) - 1) :
              i1 # i2 => <<GroupSlot(j, i1)[11], GroupSlot(j, i1)[12]>>
                           # <<GroupSlot(j, i2)[11], GroupSlot(j, i2)[12]>>
    /\ \A k \in 1..Len(DocSubmenus) :
         /\ \A i \in 0..(NSubItems(k) - 1) :
              /\ SubmenuSlot(k, i)[5] = VInt(i \div 3)
              /\ SubmenuSlot(k, i)[6] = VInt(i % 3)
         /\ \A i1, i2 \in 0..(NSubItems(k) - 1) :
              i1 # i2 => <<SubmenuSlot(k, i1)[5], SubmenuSlot(k, i1)[6]>>
                           # <<SubmenuSlot(k, i2)[5], SubmenuSlot(k, i2)[6]>>

\* a group with more than six members and a submenu with more than three
\* declared items were assembled: slots beyond the first grid row exist in both
C5_Witness ==
  /\ Assembled
  /\ \E j \in 1..Len(DocGroups) :
       NMembers(j) > 6 /\ GroupSlot(j, 6)[11] = VInt(2)
  /\ \E k \in 1..Len(DocSubmenus) :
       NSubItems(k) > 3 /\ SubmenuSlot(k, 3)[5] = VInt(1)

C7_ModifierRefsMaterialized ==
  Assembled =>
    \A i \in 1..Len(DocItems) :
      \A c \in 9..18 :
        TopItemRow(i)[c] # None =>
          \E h \in 1..Len(HeaderRows) : HeaderRows[h][2] = TopItemRow(i)[c]

\* C8: processing the empty document {} raises nothing and leaves every
\* record set empty.
C8_EmptyDocument ==
  (json_data = EmptyDict /\ calls >= 1) =>
    /\ exc = "none"
    /\ \A sh \in Sheets : data[sh] = <<>>

\* add_data has run on the empty document
C8_Witness == json_data = EmptyDict /\ calls = 1

\* x is null or absent (FieldOf gives None for both), or satisfies P
NullOr(x, P(_)) == x = None \/ P(x)

IsListOf(x, P(_)) == x.t = "list" /\ \A p \in 1..Len(x.v) : P(x.v[p])

IsName(x) == x.t = "str"
IsNameOrNull(x) == x = None \/ x.t = "str"
IsPrice(x) == x.t \in {"int", "float", "str"}
IsNumber(x) == x.t \in {"int", "str"}
IsNameList(x) == IsListOf(x, IsNameOrNull)

ShapedItem(it) ==
  /\ it.t = "dict"
  /\ NullOr(FieldOf(it, "name"), IsName)
  /\ NullOr(FieldOf(it, "price"), IsPrice)
  /\ NullOr(FieldOf(it, "number"), IsNumber)
  /\ NullOr(FieldOf(it, "modifiers"), IsNameList)

ShapedMember(m) ==
  /\ m.t = "dict"
  /\ NullOr(FieldOf(m, "name"), IsName)
  /\ NullOr(FieldOf(m, "price"), IsPrice)

IsMemberList(x) == IsListOf(x, ShapedMember)

ShapedGroup(g) ==
  /\ g.t = "dict"
  /\ NullOr(FieldOf(g, "name"), IsName)
  /\ NullOr(FieldOf(g, "number"), IsNumber)
  /\ NullOr(FieldOf(g, "items"), IsMemberList)

ShapedSubmenu(sm) ==
  /\ sm.t = "dict"
  /\ NullOr(FieldOf(sm, "name"), IsName)
  /\ NullOr(FieldOf(sm, "number"), IsNumber)
  /\ NullOr(FieldOf(sm, "items"), IsNameList)

IsItemList(x) == IsListOf(x, ShapedItem)
IsGroupList(x) == IsListOf(x, ShapedGroup)
IsSubmenuList(x) == IsListOf(x, ShapedSubmenu)

\* each key is absent, null or a list of mappings whose sub-fields are absent,
\* null or of the kind the data model gives them
ShapedDoc(d) ==
  /\ NullOr(FieldOf(d, "items"), IsItemList)
  /\ NullOr(FieldOf(d, "modifier_groups"), IsGroupList)
  /\ NullOr(FieldOf(d, "submenus"), IsSubmenuList)

\* C9: for a document whose keys are absent, null or lists of mappings with
\* absent or null sub-fields, assembly never raises, and an absent or null
\* list (a key of the document, a group's or a submenu's items) contributes
\* no rows, as an empty list would: each record set holds the rows of the
\* declared entries and nothing else.
C9_MissingOrNullNeverRaises ==
  (ShapedDoc(json_data) /\ calls >= 1) =>
    /\ exc = "none"
    /\ calls = 1 =>
         /\ Len(data["Item"]) = Len(DocItems) + MembersBefore(Len(DocGroups) + 1)
         /\ Len(data["ModifierGroup_Items"]) = SlotsBefore(Len(DocGroups) + 1)
         /\ Len(data["Submenu"]) = Len(DocSubmenus)
         /\ Len(data["SubmenuItem"]) = SubItemsBefore(Len(DocSubmenus) + 1)

\* add_data has run on a document whose items key is null and which holds a
\* group and a submenu
C9_Witness ==
  /\ calls = 1
  /\ ShapedDoc(json_data)
  /\ "items" \in DOMAIN json_data.v /\ json_data.v["items"] = None
  /\ Len(DocGroups) = 1 /\ Len(DocSubmenus) = 1
  /\ Len(data["Item"]) = NMembers(1)

\* C10: no exception escapes add_data, for any input document.
C10_NeverRaises == calls >= 1 => exc = "none"

-----------------------------------------------------------------------------
(* C11 .. C20 *)

\* C11: the number of a modifier group lies in [10000, 19999], for any
\* caller-supplied number value and for a group at any position of the list.
C11_GroupNumberInRange ==
  gn_num # None => (gn_num.v >= 10000 /\ gn_num.v <= 19999)

HasDigit(s) == \E p \in 1..Len(s) : IsDigit(s[p])

\* the caller-supplied number is an integer within [10000, 19999]
InRangeInteger(n) == n.t = "int" /\ n.v >= 10000 /\ n.v <= 19999

\* the caller-supplied number is absent, null, non-numeric (a string without
\* a digit, a list) or an integer out of range
NoUsableNumber(n) ==
  \/ n = None
  \/ n.t = "str" /\ ~HasDigit(n.v)
  \/ n.t = "list"
  \/ n.t = "int" /\ (n.v < 10000 \/ n.v > 19999)

\* C12: the group at position index keeps a caller-supplied integer within
\* [10000, 19999] unchanged; when the number is absent, null, non-numeric or
\* out of range the group's number is 10000 + index*10.
C12_GroupNumberRule ==
  Assembled =>
    \A j \in 1..Len(DocGroups) :
      LET n == FieldOf(DocGroups[j], "number")
      IN  /\ InRangeInteger(n) => GroupSlot(j, 0)[1] = n
          /\ NoUsableNumber(n) => GroupSlot(j, 0)[1] = VInt(10000 + (j - 1) * 10)

\* C13: within one document the k-th modifier-group member item in encounter
\* order (k from 0, counted across all groups) gets the ItemRecord number
\* 20000 + k: the counter does not restart at a new group and padding slots
\* consume no number.
C13_MemberNumbers ==
  Assembled =>
    \A j \in 1..Len(DocGroups) :
      \A i \in 1..NMembers(j) :
        MemberItemRow(j, i)[1] = VInt(20000 + MembersBefore(j) + (i - 1))

\* two groups with members and padding slots were assembled: the first member
\* of the second group continues the count of the first group
C13_Witness ==
  /\ Assembled
  /\ Len(DocGroups) = 2
  /\ NMembers(1) = 2 /\ NSlots(1) = 6 /\ NMembers(2) = 2
  /\ MemberItemRow(2, 1)[1] = VInt(20002)
  /\ MemberItemRow(2, 2)[1] = VInt(20003)

\* a cell value that is a formula
IsFormula(x) == x.t = "str" /\ x.v # <<>> /\ Head(x.v) = "="

\* the record sets as add_data leaves them: a member slot's price is the
\* sentinel when the slot was filled from a declared item and blank when it
\* was not, and every SubmenuItem row carries the sentinel
SentinelMarksReferences ==
  /\ \A p \in 1..Len(data["ModifierGroup_Items"]) :
       LET r == data["ModifierGroup_Items"][p]
       IN  /\ r[10].t \notin {"int", "float", "bool"}
           /\ builds = 0 =>
                IF r[9] # None THEN r[10] = FORMULA_PRICE ELSE r[10] = None
  /\ \A p \in 1..Len(data["SubmenuItem"]) :
       LET r == data["SubmenuItem"][p]
       IN  /\ r[7].t \notin {"int", "float", "bool"}
           /\ builds = 0 => r[7] = FORMULA_PRICE

\* a build_final call that returned the workbook: the price cell handed to
\* the worksheet is a lookup formula on the row's item cell when the record
\* held the sentinel, and the record's own value when it did not
RendererReplacesSentinel ==
  (builds' = builds + 1 /\ wb_exc' = "none") =>
    /\ Len(wb'["ModifierGroup_Items"]) = Len(data["ModifierGroup_Items"])
    /\ \A p \in 1..Len(data["ModifierGroup_Items"]) :
         LET old == data["ModifierGroup_Items"][p][10]
             new == wb'["ModifierGroup_Items"][p][10]
         IN  IF old = FORMULA_PRICE
             THEN IsFormula(new) /\ new = lookup_formula("I", p + 1)
             ELSE new = old
    /\ Len(wb'["SubmenuItem"]) = Len(data["SubmenuItem"])
    /\ \A p \in 1..Len(data["SubmenuItem"]) :
         LET old == data["SubmenuItem"][p][7]
             new == wb'["SubmenuItem"][p][7]
         IN  IF old = FORMULA_PRICE
             THEN IsFormula(new) /\ new = lookup_formula("C", p + 1)
             ELSE new = old

\* C14: in ModifierGroup_Items a member slot's price holds the sentinel
\* exactly when the slot carries an item reference and is blank otherwise,
\* never a number; every SubmenuItem slot carries the sentinel; the renderer
\* replaces a price cell by a lookup formula exactly when it holds the
\* sentinel.
C14_SentinelPrice ==
  []SentinelMarksReferences /\ [][RendererReplacesSentinel]_vars

\* a document with a group (member slots and padding slots) and a submenu was
\* assembled and rendered: the workbook holds a formula in a member slot, a
\* blank price in a padding slot and a formula in a SubmenuItem row
C14_Witness ==
  /\ calls = 1 /\ exc = "none" /\ builds = 1 /\ wb_exc = "none"
  /\ \E p, q \in 1..Len(wb["ModifierGroup_Items"]) :
       /\ wb["ModifierGroup_Items"][p][9] # None
       /\ wb["ModifierGroup_Items"][p][10] = lookup_formula("I", p + 1)
       /\ wb["ModifierGroup_Items"][q][9] = None
       /\ wb["ModifierGroup_Items"][q][10] = None
  /\ \E p \in 1..Len(wb["SubmenuItem"]) :
       wb["SubmenuItem"][p][7] = lookup_formula("C", p + 1)

\* the modifier-group-reference slots of an Item row hold the first ten
\* entries of mods in order, and nothing after them
SlotsHold(row, mods) ==
  \A k \in 1..10 : row[8 + k] = (IF k <= Len(mods) THEN mods[k] ELSE None)

\* C15: every ItemRecord has exactly 10 modifier-group-reference slots; an
\* item declaring more than 10 modifiers keeps the first 10 in declared order,
\* an item declaring fewer has the remaining slots empty.
C15_TenModifierSlots ==
  /\ \A p \in 1..Len(data["Item"]) : Len(data["Item"][p]) = 8 + 10
  /\ Assembled =>
       /\ \A i \in 1..Len(DocItems) :
            SlotsHold(TopItemRow(i), Declared(DocItems[i], "modifiers"))
       /\ \A j \in 1..Len(DocGroups) :
            \A i \in 1..NMembers(j) : SlotsHold(MemberItemRow(j, i), <<>>)

\* an item declaring eleven modifiers was assembled next to a group with
\* member items: its last slot holds the tenth declared modifier
C15_Witness ==
  /\ Assembled
  /\ \E i \in 1..Len(DocItems) :
       LET mods == Declared(DocItems[i], "modifiers")
       IN  /\ Len(mods) > 10
           /\ Len(TopItemRow(i)) = 18
           /\ TopItemRow(i)[18] = mods[10]
           /\ mods[10] # mods[11]
  /\ \E j \in 1..Len(DocGroups) : NMembers(j) > 0

\* a price that is a string with no digit character (the strings of the
\* model have no spelling of infinity or NaN)
NonNumericPrice(x) == x.t = "str" /\ ~HasDigit(x.v)

\* some top-level item or member item of the document has such a price
SomeNonNumericPrice ==
  \/ \E i \in 1..Len(DocItems) : NonNumericPrice(FieldOf(DocItems[i], "price"))
  \/ \E j \in 1..Len(DocGroups) :
       \E i \in 1..NMembers(j) :
         NonNumericPrice(FieldOf(Declared(DocGroups[j], "items")[i], "price"))

C17_PriceNonNegative ==
  \A p \in 1..Len(data["Item"]) :
    /\ data["Item"][p][5].t \in {"int", "float"}
    /\ data["Item"][p][5].v >= 0

\* C18: the Category, TaxGroup and MenuSubmenu row sets are empty, in the
\* builder and among the rows handed to the workbook, after any sequence of
\* add_data calls and for any input document, even one that supplies
\* categories.
C18_EmptyCompatibilitySheets ==
  \A sh \in {"Category", "TaxGroup", "MenuSubmenu"} :
    data[sh] = <<>> /\ wb[sh] = <<>>

\* a document that supplies categories, items, a group and a submenu was
\* assembled twice and rendered: the workbook got Item rows
C18_Witness ==
  /\ "categories" \in DOMAIN json_data.v
  /\ Len(Declared(json_data, "categories")) > 0
  /\ calls = 2 /\ exc = "none" /\ builds = 1 /\ wb_exc = "none"
  /\ Len(wb["Item"]) = Len(data["Item"]) /\ Len(wb["Item"]) > 0

\* an Item row that carries an auto-generated member number
IsMemberRecord(r) == r[1].t = "int" /\ r[1].v >= 20000

\* C19: in the Item record set produced for one document, the ItemRecords of
\* all modifier-group member items come before the ItemRecords of all
\* top-level items.
C19_MembersBeforeTopLevel ==
  Assembled =>
    \A p, q \in 1..Len(data["Item"]) :
      (IsMemberRecord(data["Item"][p]) /\ ~IsMemberRecord(data["Item"][q]))
        => p < q

\* C20: every non-empty item reference held by a modifier-group member slot
\* equals the ShortName of an ItemRecord of the same document, for member
\* names of any length.
C20_MemberRefsAreShortNames ==
  Assembled =>
    \A p \in 1..Len(data["ModifierGroup_Items"]) :
      LET ref == data["ModifierGroup_Items"][p][9]
      IN  (ref # None /\ ref # VStr(<<>>)) =>
            \E q \in 1..Len(data["Item"]) : data["Item"][q][2] = ref

-----------------------------------------------------------------------------
(* C21 .. C30 *)

\* C21: for each submenu exactly one member slot is emitted per declared item
\* name, in declared order, and a slot whose declared name equals the
\* original name of a top-level item carries that item's ShortName as its
\* item reference.
C21_SubmenuRefsResolved ==
  (Assembled /\ ShapedDoc(json_data)) =>
    /\ Len(data["SubmenuItem"]) = SubItemsBefore(Len(DocSubmenus) + 1)
    /\ \A k \in 1..Len(DocSubmenus) :
         \A i \in 1..NSubItems(k) :
           LET declared == Declared(DocSubmenus[k], "items")[i]
           IN  \A t \in 1..Len(DocItems) :
                 (NonEmptyName(declared) /\ FieldOf(DocItems[t], "name") = declared)
                   => SubmenuSlot(k, i - 1)[3] = TopItemRow(t)[2]

\* the 15-character base of a raw name
BaseOf(raw) == Take(Strip(raw.v), 15)

\* C22: when a name's 15-character base is already taken by a different
\* original string, its ShortName is the first 14 characters followed by the
\* lowest unused digit, the result has at most 15 characters and the first
\* string keeps its unsuffixed base.  Stated for a document whose first two
\* resolved names are those of its two top-level items.
C22_CollisionSuffix ==
  (Assembled /\ Len(DocItems) = 2 /\ DocGroups = <<>> /\ DocSubmenus = <<>>) =>
    LET raw1 == FieldOf(DocItems[1], "name")
        raw2 == FieldOf(DocItems[2], "name")
    IN  (NonEmptyName(raw1) /\ NonEmptyName(raw2) /\ raw1 # raw2
         /\ BaseOf(raw1) = BaseOf(raw2) /\ Len(BaseOf(raw1)) = 15) =>
          /\ TopItemRow(1)[2] = VStr(BaseOf(raw1))
          /\ TopItemRow(2)[2] = VStr(Take(BaseOf(raw2), 14) \o <<"1">>)
          /\ Len(TopItemRow(2)[2].v) <= 15

\* the sanitized string of a raw name: the characters outside the safe set
\* removed, then trimmed
Sanitized(raw) == Strip(SelectSeq(raw.v, SafeChar))

\* the text of a worksheet cell (a blank cell holds no text)
CellText(x) == IF x = None THEN <<>> ELSE x.v

\* one add_data call and one build_final call were made, and both returned
Rendered == calls = 1 /\ exc = "none" /\ builds = 1 /\ wb_exc = "none"

\* C23: sanitization happens before truncation: the ShortName that reaches
\* the workbook is the first 15 characters of the sanitized raw name and the
\* LongName its first 23 characters.
C23_SanitizeBeforeTruncate ==
  (Rendered /\ Len(wb["Item"]) = Len(data["Item"])) =>
    \A i \in 1..Len(DocItems) :
      LET raw == FieldOf(DocItems[i], "name")
      IN  NonEmptyName(raw) =>
            /\ CellText(wb["Item"][i][2]) = Take(Sanitized(raw), 15)
            /\ CellText(wb["Item"][i][3]) = Take(Sanitized(raw), 23)

\* C24: records are built fresh per document: after add_data(d) returns the
\* record sets hold exactly the entities of d whatever calls were made before
\* on the same builder, with no duplicated rows and no repeated 20000-based
\* item number.
C24_FreshPerDocument ==
  (calls >= 1 /\ exc = "none" /\ ShapedDoc(json_data)) =>
    /\ Len(data["Item"]) = Len(DocItems) + MembersBefore(Len(DocGroups) + 1)
    /\ Len(data["ModifierGroup_Items"]) = SlotsBefore(Len(DocGroups) + 1)
    /\ Len(data["Submenu"]) = Len(DocSubmenus)
    /\ Len(data["SubmenuItem"]) = SubItemsBefore(Len(DocSubmenus) + 1)
    /\ \A p, q \in 1..Len(data["Item"]) :
         (p # q /\ IsMemberRecord(data["Item"][p]))
           => data["Item"][p][1] # data["Item"][q][1]

\* C25: no two modifier groups materialized from one document carry the same
\* group number.
C25_GroupNumbersUnique ==
  Assembled =>
    \A j1, j2 \in 1..Len(DocGroups) :
      j1 # j2 => GroupSlot(j1, 0)[1] # GroupSlot(j2, 0)[1]

\* a name field that is missing, null or the empty string
EmptyNameField(raw) == raw = None \/ raw = VStr(<<>>)

\* C26: an item, modifier group or submenu whose name field is missing, null
\* or empty is still emitted as a record, with empty ShortName and LongName;
\* the number of Item, group-header and Submenu records equals the number of
\* input entries regardless of which names are empty.
C26_EmptyNamesEmitted ==
  (calls = 1 /\ ShapedDoc(json_data)) =>
    /\ exc = "none"
    /\ Len(data["Item"]) = Len(DocItems) + MembersBefore(Len(DocGroups) + 1)
    /\ Len(HeaderRows) = Len(DocGroups)
    /\ Len(data["Submenu"]) = Len(DocSubmenus)
    /\ \A e \in Resolved :
         EmptyNameField(e.raw) => (e.short = VStr(<<>>) /\ e.long = VStr(<<>>))

\* a document with two top-level items, the first without a name and the
\* second with one, was assembled: both have their ItemRecord
C26_Witness ==
  /\ calls = 1 /\ ShapedDoc(json_data)
  /\ Len(DocItems) = 2
  /\ "name" \notin DOMAIN DocItems[1].v
  /\ NonEmptyName(FieldOf(DocItems[2], "name"))
  /\ TopItemRow(1)[2] = VStr(<<>>) /\ TopItemRow(1)[3] = VStr(<<>>)
  /\ TopItemRow(2)[2] # VStr(<<>>)

\* C27: add_data leaves its input document unchanged: after the call every
\* list and mapping of the document, each item's modifiers list included, has
\* the content and length it had before.
C27_InputUnchanged == [][json_data' = json_data]_vars

\* C28: no two ItemRecords of one document's Item record set share the same
\* non-empty ShortName, also when the same name occurs both as a top-level
\* item and as a modifier-group member, or as a member of two groups.
C28_ItemShortNamesUnique ==
  (Assembled /\ ShapedDoc(json_data)) =>
    \A i1, i2 \in 1..Len(data["Item"]) :
      (i1 # i2 /\ data["Item"][i1][2] # VStr(<<>>))
        => data["Item"][i1][2] # data["Item"][i2][2]

\* C29: in the rendered workbook the only cells with a leading "=" are the
\* lookup formulas generated from the price sentinel (price column of a
\* ModifierGroup_Items or SubmenuItem row); an input name that begins with
\* "=" does not reach the workbook as a formula.
C29_OnlyGeneratedFormulas ==
  Rendered =>
    \A s \in DOMAIN wb : \A r \in 1..Len(wb[s]) : \A c \in 1..Len(wb[s][r]) :
      IsFormula(wb[s][r][c]) =>
        \/ s = "ModifierGroup_Items" /\ c = 10
             /\ wb[s][r][c] = lookup_formula("I", r + 1)
        \/ s = "SubmenuItem" /\ c = 7
             /\ wb[s][r][c] = lookup_formula("C", r + 1)

-----------------------------------------------------------------------------
(* _generate_with_retry *)

\* the function has returned
Returned == retry.pc = "return"

\* at most max_retries calls of the model
RetryCallsBounded == retry.calls <= retry.max_retries

\* attempt a (0-based) failed with a rate-limit message
RateLimitedAttempt(a) ==
  retry.log[a + 1][1] = "raised" /\ rate_limited(retry.log[a + 1][2])

\* the attempts the function waited after
WaitedAfter == {retry.waits[i][1] : i \in 1..Len(retry.waits)}

\* the value returned is the parsed text of the first attempt that succeeded,
\* or else an "error" mapping made after attempt max_retries - 1 failed
RetryResultRule ==
  Returned =>
    LET n == Len(retry.log)
    IN  /\ n >= 1
        /\ \A a \in 1..(n - 1) : retry.log[a][1] = "raised"
        /\ IF retry.log[n][1] = "ok" THEN retry.result = retry.log[n][2]
           ELSE /\ n = retry.max_retries
                /\ retry.result.t = "dict"
                /\ "error" \in DOMAIN retry.result.v

\* a wait of 2^attempt seconds plus a jitter of at most one second follows a
\* rate-limit failure that is not the last attempt, and nothing else
RetryWaitRule ==
  /\ \A i \in 1..Len(retry.waits) :
       LET a == retry.waits[i][1]
           t == retry.waits[i][2]
       IN  /\ RateLimitedAttempt(a)
           /\ a < retry.max_retries - 1
           /\ 100 * Pow2(a) <= t /\ t <= 100 * Pow2(a) + 100
  /\ \A a \in 0..(retry.attempt - 1) :
       a \in WaitedAfter <=> RateLimitedAttempt(a)

\* C30: _generate_with_retry with max_retries >= 1 makes at most max_retries
\* calls to the model; it returns the parsed result of the first successful
\* attempt, otherwise a mapping with an "error" key after the last attempt;
\* it never returns None; it waits (2^attempt plus jitter) only after a
\* rate-limit failure that is not the last attempt, and any other failure
\* before the last attempt leads to the next attempt without waiting.
C30_RetryContract ==
  retry.max_retries >= 1 =>
    /\ RetryCallsBounded
    /\ RetryResultRule
    /\ RetryWaitRule
    /\ Returned => retry.result # None

\* under FairSpecRetry the function comes to its return
RetryReturns == <>Returned

====
